---- MODULE Spec2Model ----
(***************************************************************************)
(* Model of the request-routing client (src/src/lib.rs): Client::new,      *)
(* Client::send_request ("execute"), Client::build_url and                 *)
(* Client::get_request_url, with the supervisor cache shared by all        *)
(* outstanding calls and an HTTP transport that answers arbitrarily.       *)
(*                                                                         *)
(* Text that the code takes apart (an "host:port" supervisor entry) is a   *)
(* sequence of one-character strings; text that the code hands whole to a  *)
(* library parser (a header value given to Url::parse or to                *)
(* serde_json::from_str) is a string whose parse is tabulated.             *)
(***************************************************************************)
EXTENDS Integers, Sequences, FiniteSets, TLC

\* ------------------------------------------------------------------ bounds

\* Total number of execute calls started in one behaviour.
MaxExec == 2

\* Client::new: max_redirects: 5
max_redirects == 5

\* The concurrent callers (tasks that may each be inside send_request).
Calls == {"t1", "t2"}

\* Module names passed to send_request.
Modules == {"m1", "m2"}

\* ------------------------------------------------------------------ Option

None == [some |-> FALSE, val |-> <<>>]

Some(v) == [some |-> TRUE, val |-> v]

\* Result<T, E> of the library parsers
Err == [ok |-> FALSE, val |-> <<>>]

Ok(v) == [ok |-> TRUE, val |-> v]

\* ------------------------------------------------------------------ URLs

\* A parsed url::Url. port is the explicit port, or -1 when the URL carries
\* none (the url crate stores no port when it is the scheme's default).
NoPort == -1

MkUrl(scheme, host, port, path, query) ==
    [scheme |-> scheme, host |-> host, port |-> port, path |-> path, query |-> query]

NoUrl == MkUrl("", <<>>, NoPort, <<>>, "")

\* url crate: the default port of a special scheme
DefaultPort(scheme) ==
    CASE scheme = "http"  -> 80
      [] scheme = "https" -> 443
      [] OTHER            -> NoPort

\* Url::port_or_known_default
PortOrKnownDefault(url) ==
    IF url.port # NoPort THEN url.port ELSE DefaultPort(url.scheme)

\* Client::new: base_url: Url::parse(&base_url)?  (the conductor)
base_url == MkUrl("http", <<"c">>, 8888, <<>>, "")

\* path_suffix passed by the builders' terminal methods
path_suffix == <<"pstate", "$$p", "select">>

\* Client::build_url: format!("{}/rest/{}/{}", base, module, suffix), parsed
build_url(module) ==
    MkUrl(base_url.scheme, base_url.host, base_url.port,
          base_url.path \o <<"rest", module>> \o path_suffix, base_url.query)

\* Url::parse on the text of a Location header: the texts the transport of
\* this model can send, and the URL each parses to.
UrlParse(text) ==
    CASE text = "https://e/moved?x=1"
           -> Ok(MkUrl("https", <<"e">>, NoPort, <<"moved">>, "x=1"))
      [] OTHER -> Err

\* ------------------------------------------------------------------ supervisor entries

Digits == {"0", "1", "2", "3", "4", "5", "6", "7", "8", "9"}

DigitVal(ch) ==
    CASE ch = "0" -> 0 [] ch = "1" -> 1 [] ch = "2" -> 2 [] ch = "3" -> 3
      [] ch = "4" -> 4 [] ch = "5" -> 5 [] ch = "6" -> 6 [] ch = "7" -> 7
      [] ch = "8" -> 8 [] ch = "9" -> 9

\* str::split_once(':'): the text before and after the first ':'
split_once(s) ==
    IF \E i \in 1..Len(s) : s[i] = ":"
    THEN LET i == CHOOSE i \in 1..Len(s) : s[i] = ":" /\ \A j \in 1..(i - 1) : s[j] # ":"
         IN  Some(<<SubSeq(s, 1, i - 1), SubSeq(s, i + 1, Len(s))>>)
    ELSE None

RECURSIVE DecimalValue(_)
DecimalValue(ds) ==
    IF ds = <<>> THEN 0
    ELSE 10 * DecimalValue(SubSeq(ds, 1, Len(ds) - 1)) + DigitVal(ds[Len(ds)])

\* str::parse::<u16>: an optional '+', then one or more digits, value <= 65535
parse_u16(s) ==
    LET ds == IF s # <<>> /\ s[1] = "+" THEN Tail(s) ELSE s
    IN  IF ds # <<>> /\ (\A i \in 1..Len(ds) : ds[i] \in Digits) /\ DecimalValue(ds) <= 65535
        THEN Ok(DecimalValue(ds))
        ELSE Err

\* Url::set_host(Some(host)): refused for an empty host on a special scheme
set_host(url, host) ==
    IF host = <<>> THEN Err ELSE Ok([url EXCEPT !.host = host])

\* A set_port that leaves the URL's port as it was.
set_port_noop(url, port) == Ok(url)

\* Url::set_port(Some(port)): the scheme's default port is stored as no port
set_port(url, port) ==
    Ok([url EXCEPT !.port = IF port = DefaultPort(url.scheme) THEN NoPort ELSE port])

\* A substitution that starts from a clone of the client's base URL instead
\* of the URL of the request being made.
substitute_into_base_url(base_request_url, supervisor_host_port) ==
    LET split == split_once(supervisor_host_port)
    IN  IF ~split.some THEN base_request_url
        ELSE
    LET host == split.val[1]
        port == parse_u16(split.val[2])
    IN  IF ~port.ok THEN base_request_url
        ELSE
    LET with_host == set_host(base_url, host)
    IN  IF ~with_host.ok THEN base_request_url
        ELSE
    LET with_port == set_port(with_host.val, port.val)
    IN  IF ~with_port.ok THEN base_request_url
        ELSE with_port.val

\* get_request_url from `split_once(':')` on: the chosen entry's host and
\* port put into a clone of base_request_url, or base_request_url itself when
\* the entry has no ':', its port is no u16, or the URL refuses the host or
\* the port.
substitute(base_request_url, supervisor_host_port) ==
    LET split == split_once(supervisor_host_port)
    IN  IF ~split.some THEN base_request_url
        ELSE
    LET host == split.val[1]
        port == parse_u16(split.val[2])
    IN  IF ~port.ok THEN base_request_url
        ELSE
    LET with_host == set_host(base_request_url, host)
    IN  IF ~with_host.ok THEN base_request_url
        ELSE
    LET with_port == set_port(with_host.val, port.val)
    IN  IF ~with_port.ok THEN base_request_url
        ELSE with_port.val

\* get_request_url answering an empty list with the client's base_url
\* instead of base_request_url.
get_request_url_empty_to_base(base_request_url, supervisor_list_opt, i) ==
    IF ~supervisor_list_opt.some THEN base_request_url
    ELSE IF supervisor_list_opt.val = <<>> THEN base_url
    ELSE substitute(base_request_url, supervisor_list_opt.val[i])

\* A selection that never consults the cached list.
get_request_url_ignore_cache(base_request_url, supervisor_list_opt, i) ==
    base_request_url

\* Selects a URL to target, preferring cached supervisors. i is the index
\* that supervisor_list.choose(&mut rng) draws.
get_request_url(base_request_url, supervisor_list_opt, i) ==
    IF ~supervisor_list_opt.some THEN base_request_url
    ELSE IF supervisor_list_opt.val = <<>> THEN base_request_url
    ELSE substitute(base_request_url, supervisor_list_opt.val[i])

\* The indices SliceRandom::choose can draw from the looked-up list.
ChoiceIndices(supervisor_list_opt) ==
    IF supervisor_list_opt.some /\ supervisor_list_opt.val # <<>>
    THEN 1..Len(supervisor_list_opt.val)
    ELSE {1}

\* ------------------------------------------------------------------ the cache

\* Client::new: supervisor_cache: Arc::new(Mutex::new(HashMap::new()))
EmptyCache == [m \in Modules |-> None]

\* self.supervisor_cache.lock().unwrap().get(module).cloned()
cache_get(cache, m) == cache[m]

\* A cache update that keeps an entry already there (entry().or_insert()).
cache_insert_if_absent(cache, m, supervisors) ==
    IF cache[m].some THEN cache ELSE [cache EXCEPT ![m] = Some(supervisors)]

\* A cache update that appends to the entry already there (extend()).
cache_insert_merge(cache, m, supervisors) ==
    [cache EXCEPT ![m] = Some(cache[m].val \o supervisors)]

\* A cache update that stores every list under one fixed key.
cache_insert_fixed_key(cache, m, supervisors) ==
    [cache EXCEPT !["m1"] = Some(supervisors)]

\* self.supervisor_cache.lock().unwrap().insert(module.to_string(), supervisors)
cache_insert(cache, m, supervisors) == [cache EXCEPT ![m] = Some(supervisors)]

\* ------------------------------------------------------------------ the transport

\* A response header: absent, or bytes that HeaderValue::to_str accepts
\* (visible ASCII) or refuses.
NoHeader == [present |-> FALSE, ascii |-> FALSE, text |-> ""]

BinaryHeader == [present |-> TRUE, ascii |-> FALSE, text |-> ""]

TextHeader(text) == [present |-> TRUE, ascii |-> TRUE, text |-> text]

\* serde_json::from_str::<Vec<String>> on the text of a Supervisor-Locations
\* header: the texts the transport of this model can send, and their parse.
from_str(text) ==
    CASE text = "[]" -> Ok(<<>>)
      [] text = "[\"a:1\",\"b:80\"]"
           -> Ok(<< <<"a", ":", "1">>, <<"b", ":", "8", "0">> >>)
      [] text = "[\"a:1\",\"n\",\"a:x\",\":1\",\"a:70000\"]"
           -> Ok(<< <<"a", ":", "1">>, <<"n">>, <<"a", ":", "x">>, <<":", "1">>,
                    <<"a", ":", "7", "0", "0", "0", "0">> >>)
      [] OTHER -> Err

LocationHeaders ==
    {NoHeader, BinaryHeader, TextHeader("not a url"),
     TextHeader("https://e/moved?x=1")}

SupervisorHeaders ==
    {NoHeader, BinaryHeader, TextHeader("{oops"), TextHeader("[]"),
     TextHeader("[\"a:1\",\"b:80\"]"),
     TextHeader("[\"a:1\",\"n\",\"a:x\",\":1\",\"a:70000\"]")}

MkResponse(kind, status, body_ok, location, supervisors) ==
    [kind |-> kind, status |-> status, body_ok |-> body_ok,
     location |-> location, supervisors |-> supervisors]

NoResponse == MkResponse("none", 0, FALSE, NoHeader, NoHeader)

\* What .send().await can yield: a transport failure, or a response with a
\* status, a body that decodes as R or does not, and the two headers the
\* client reads.
Responses ==
    {MkResponse("error", 0, FALSE, NoHeader, NoHeader)}
    \cup {MkResponse("http", 200, b, NoHeader, NoHeader) : b \in BOOLEAN}
    \cup {MkResponse("http", s, FALSE, NoHeader, NoHeader) : s \in {404, 500}}
    \cup {MkResponse("http", 308, FALSE, l, s) : l \in LocationHeaders, s \in SupervisorHeaders}

\* ------------------------------------------------------------------ outcomes

\* Result<R, ClientError> returned by send_request. kind is "Ok" or the
\* ClientError variant; cause is the error the variant wraps, for the variants
\* that wrap one (Http wraps the reqwest::Error of a failed send or of a body
\* that did not decode); status and url are UnexpectedStatus's two fields.
MkOutcome(kind, cause, status, url) ==
    [kind |-> kind, cause |-> cause, status |-> status, url |-> url]

NoOutcome == MkOutcome("None", "", 0, NoUrl)

Failure(kind, cause) == MkOutcome(kind, cause, 0, NoUrl)

\* One pass over the response to the request sent to target: what
\* send_request does from the end of .send().await to the end of the loop
\* body. continue: the loop goes on; updated: the list written to the cache,
\* if one was.
MkStep(continue, outcome, cache, url, updated) ==
    [continue |-> continue, outcome |-> outcome, cache |-> cache,
     current_url |-> url, updated |-> updated]

Return(outcome, cache, url) == MkStep(FALSE, outcome, cache, url, None)

\* A failed send answered by another pass of the loop.
on_send_error_retry(cur, cache) == MkStep(TRUE, NoOutcome, cache, cur, None)

\* .send().await fails: map_err(ClientError::Http) and `?`
on_send_error(cur, cache) == Return(Failure("Http", "send"), cache, cur)

\* --- Success Case ---: response.json::<R>().await.map_err(ClientError::Http)
on_ok(resp, cur, cache) ==
    IF resp.body_ok
    THEN Return(MkOutcome("Ok", "", 0, NoUrl), cache, cur)
    ELSE Return(Failure("Http", "decode"), cache, cur)

\* Location read with a lossy conversion: bytes that are no text become
\* some text instead of an error.
location_str_lossy(resp) ==
    IF ~resp.location.present THEN Err
    ELSE Ok(resp.location.text)

\* Extract Location header: headers().get(LOCATION), then to_str()
location_str(resp) ==
    IF ~resp.location.present THEN Err
    ELSE IF ~resp.location.ascii THEN Err
    ELSE Ok(resp.location.text)

\* A missing Supervisor-Locations header read as an empty list.
supervisor_str_or_empty(resp) ==
    IF ~resp.supervisors.present THEN Ok("[]")
    ELSE IF ~resp.supervisors.ascii THEN Err
    ELSE Ok(resp.supervisors.text)

\* Extract Supervisor-Locations header: headers().get(..), then to_str()
supervisor_str(resp) ==
    IF ~resp.supervisors.present THEN Err
    ELSE IF ~resp.supervisors.ascii THEN Err
    ELSE Ok(resp.supervisors.text)

\* --- Redirect Case ---
on_redirect(resp, cur, cache, m) ==
    LET location == location_str(resp)
    IN  IF ~location.ok
        THEN Return(Failure("MissingLocationHeader", ""), cache, cur)
        ELSE
    LET supervisor == supervisor_str(resp)
    IN  IF ~supervisor.ok
        THEN Return(Failure("MissingSupervisorLocationsHeader", ""), cache, cur)
        ELSE
    LET supervisors == from_str(supervisor.val)
    IN  IF ~supervisors.ok
        THEN Return(Failure("InvalidSupervisorLocations", "json"), cache, cur)
        ELSE
    LET updated == cache_insert(cache, m, supervisors.val)
        new_url == UrlParse(location.val)
    IN  IF new_url.ok
        THEN MkStep(TRUE, NoOutcome, updated, new_url.val, Some(supervisors.val))
        ELSE MkStep(FALSE, Failure("Url", "parse"), updated, cur, Some(supervisors.val))

\* A 5xx answered by another pass of the loop (the TODO of the source).
on_other_retry_5xx(resp, target, cur, cache) ==
    IF resp.status >= 500
    THEN MkStep(TRUE, NoOutcome, cache, cur, None)
    ELSE Return(MkOutcome("UnexpectedStatus", "", resp.status, target), cache, cur)

\* --- Other Error Status ---
on_other(resp, target, cur, cache) ==
    Return(MkOutcome("UnexpectedStatus", "", resp.status, target), cache, cur)

on_response(resp, target, cur, cache, m) ==
    IF resp.kind = "error" THEN on_send_error(cur, cache)
    ELSE IF resp.status = 200 THEN on_ok(resp, cur, cache)
    ELSE IF resp.status = 308 THEN on_redirect(resp, cur, cache, m)
    ELSE on_other(resp, target, cur, cache)

\* The guard with > in place of >=.
redirects_exhausted_off_by_one(n) == n > max_redirects

\* --- Guard: Max Redirects ---
redirects_exhausted(n) == n >= max_redirects

\* ------------------------------------------------------------------ JSON values

\* serde_json::Value as the builders use it: Value::String(text), the text a
\* sequence of characters, and Value::Array(items).
Str(text) == [kind |-> "String", text |-> text, items |-> <<>>]

Arr(items) == [kind |-> "Array", text |-> <<>>, items |-> items]

\* ------------------------------------------------------------------ the encoders

DigitChar(d) ==
    CASE d = 0 -> "0" [] d = 1 -> "1" [] d = 2 -> "2" [] d = 3 -> "3"
      [] d = 4 -> "4" [] d = 5 -> "5" [] d = 6 -> "6" [] d = 7 -> "7"
      [] d = 8 -> "8" [] d = 9 -> "9"

RECURSIVE NatToText(_)
NatToText(n) ==
    IF n < 10 THEN <<DigitChar(n)>>
    ELSE NatToText(n \div 10) \o <<DigitChar(n % 10)>>

\* Display of a signed integer (format!("{}", val)): decimal digits, '-' first
\* for a negative value.
IntToText(val) == IF val < 0 THEN <<"-">> \o NatToText(0 - val) ELSE NatToText(val)

\* An f32 by what its Display prints from: NaN, an infinity, or a sign, the
\* integer part and the digits of the shortest fraction that reads back as
\* the same f32 (none for a whole number).
MkFloat(class, neg, int, frac) == [class |-> class, neg |-> neg, int |-> int, frac |-> frac]

\* Display of an f32 (format!("{}", val)): "NaN", "inf", "-inf", or the
\* digits with a '.' only before a fraction; 1.0 prints as "1".
FloatToText(val) ==
    CASE val.class = "nan" -> <<"N", "a", "N">>
      [] val.class = "inf" -> (IF val.neg THEN <<"-">> ELSE <<>>) \o <<"i", "n", "f">>
      [] OTHER -> (IF val.neg THEN <<"-">> ELSE <<>>)
                  \o NatToText(val.int)
                  \o (IF val.frac = <<>> THEN <<>> ELSE <<".">> \o val.frac)

\* A copy of rama_byte with the argument type changed and the literal left.
rama_short_as_byte(val) == Str(<<"#", "_", "_", "B">> \o IntToText(val))

\* Value::String(format!("#__L{}", val))
rama_long(val) == Str(<<"#", "_", "_", "L">> \o IntToText(val))

\* Value::String(format!("#__B{}", val))
rama_byte(val) == Str(<<"#", "_", "_", "B">> \o IntToText(val))

\* Value::String(format!("#__S{}", val))
rama_short(val) == Str(<<"#", "_", "_", "S">> \o IntToText(val))

\* Value::String(format!("#__F{}", val))
rama_float(val) == Str(<<"#", "_", "_", "F">> \o FloatToText(val))

\* Value::String(format!("#__C{}", val))
rama_char(val) == Str(<<"#", "_", "_", "C">> \o <<val>>)

\* Value::String(format!("#__K{}", val))
rama_keyword(val) == Str(<<"#", "_", "_", "K">> \o val)

\* Value::String(format!("#__f{}", name))
rama_function(name) == Str(<<"#", "_", "_", "f">> \o name)

\* rama_function(&format!("Ops.{}", name))
rama_ops_function(name) == rama_function(<<"O", "p", "s", ".">> \o name)

\* ------------------------------------------------------------------ the query builder

\* PStateQueryBuilder::new: path: Vec::new()
new_path == <<>>

\* self.path.push(value.into())
nav(path, value) == Append(path, value)

\* self.nav(key.into())
key(path, k) == nav(path, Str(k))

\* self.nav(rama_function(function_name))
filter_pred_fn(path, function_name) == nav(path, rama_function(function_name))

\* vec![Value::String(op)], extend(args), push(Value::Array(nav_array))
add_explicit_nav(path, op, args) == Append(path, Arr(<<Str(op)>> \o args))

all(path) == add_explicit_nav(path, <<"a", "l", "l">>, <<>>)

must(path, keys) == add_explicit_nav(path, <<"m", "u", "s", "t">>, keys)

map_vals(path) == add_explicit_nav(path, <<"m", "a", "p", "V", "a", "l", "s">>, <<>>)

FilterSelectedName ==
    <<"f", "i", "l", "t", "e", "r", "S", "e", "l", "e", "c", "t", "e", "d">>

SubselectName == <<"s", "u", "b", "s", "e", "l", "e", "c", "t">>

\* A filterSelected that passes the sub-path as one argument.
filter_selected_one_argument(path, path_to_filter) ==
    Append(path, Arr(<<Str(FilterSelectedName), Arr(path_to_filter)>>))

\* nav_array = vec!["filterSelected"]; nav_array.extend(path_to_filter);
\* self.path.push(Value::Array(nav_array))
filter_selected(path, path_to_filter) ==
    Append(path, Arr(<<Str(FilterSelectedName)>> \o path_to_filter))

\* nav_array = vec!["subselect"]; nav_array.extend(sub_path);
\* self.path.push(Value::Array(nav_array))
subselect(path, sub_path) ==
    Append(path, Arr(<<Str(SubselectName)>> \o sub_path))

\* The values the builder's callers pass in.
Longs == {0 - 42, 5, 1000000}

Bytes == {0 - 128, 5}

Shorts == {5, 32767}

Floats ==
    {MkFloat("finite", FALSE, 1, <<"5">>), MkFloat("finite", TRUE, 0, <<"2", "5">>),
     MkFloat("finite", FALSE, 1, <<>>), MkFloat("nan", FALSE, 0, <<>>)}

Chars == {"x", "5"}

Names == {<<"a">>, <<"5">>}

FunctionNames == {<<"f">>, <<"O", "p", "s", ".", "g">>}

OpsNames == {<<"g">>, <<"I", "S", "_", "E", "V", "E", "N">>}

\* Steps a sub-path is built from: a key, an operation without arguments, an
\* encoded function and a step that is itself a filterSelected array.
SubSteps ==
    {Str(<<"a">>),
     Arr(<<Str(<<"a", "l", "l">>)>>),
     rama_ops_function(<<"g">>),
     Arr(<<Str(FilterSelectedName), Str(<<"a">>), Arr(<<Str(<<"a", "l", "l">>)>>)>>)}

\* Sub-paths of up to two steps.
SubPaths ==
    {<<>>} \cup {<<a>> : a \in SubSteps}
           \cup {<<a, b>> : a \in SubSteps, b \in SubSteps \ {rama_ops_function(<<"g">>)}}

KeyLists == {<<Str(<<"a">>)>>, <<Str(<<"a">>), rama_long(5)>>}

\* ------------------------------------------------------------------ state

VARIABLES
    supervisor_cache,     \* Client.supervisor_cache
    pc,                   \* where each call is: idle, loop, await, done
    module,               \* send_request's module argument
    current_url,          \* send_request's current_url
    attempts,             \* send_request's attempts
    target_url,           \* the URL of the request in flight
    outcome,              \* what send_request returned
    sent,                 \* requests the call has sent so far
    followed,             \* redirects the call has followed so far
    started,              \* execute calls started so far
    last_update,          \* per module, the list of the latest redirect update
    path,                 \* PStateQueryBuilder.path
    applied,              \* the builder methods called so far, with arguments
    lock_owner,           \* the call holding supervisor_cache's Mutex, if any
    pending               \* the 308 a call is about to update the cache from

client_vars == <<supervisor_cache, pc, module, current_url, attempts, target_url,
                 outcome, sent, followed, started, last_update>>

builder_vars == <<path, applied>>

lock_vars == <<lock_owner, pending>>

vars == <<client_vars, builder_vars, lock_vars>>

Init ==
    /\ supervisor_cache = EmptyCache
    /\ pc = [c \in Calls |-> "idle"]
    /\ module = [c \in Calls |-> "m1"]
    /\ current_url = [c \in Calls |-> NoUrl]
    /\ attempts = [c \in Calls |-> 0]
    /\ target_url = [c \in Calls |-> NoUrl]
    /\ outcome = [c \in Calls |-> NoOutcome]
    /\ sent = [c \in Calls |-> 0]
    /\ followed = [c \in Calls |-> 0]
    /\ started = 0
    /\ last_update = [m \in Modules |-> None]
    /\ path = new_path
    /\ applied = <<>>
    /\ lock_owner = None
    /\ pending = [c \in Calls |-> NoResponse]

Running(c) == pc[c] \notin {"idle", "done"}

\* send_request is called: the initial URL is built, attempts = 0.
Execute(c, m) ==
    /\ ~Running(c)
    /\ started < MaxExec
    /\ started' = started + 1
    /\ pc' = [pc EXCEPT ![c] = "loop"]
    /\ module' = [module EXCEPT ![c] = m]
    /\ current_url' = [current_url EXCEPT ![c] = build_url(m)]
    /\ attempts' = [attempts EXCEPT ![c] = 0]
    /\ outcome' = [outcome EXCEPT ![c] = NoOutcome]
    /\ UNCHANGED <<supervisor_cache, target_url, sent, followed, last_update>>
    /\ UNCHANGED <<builder_vars, lock_vars>>

\* send_request returns: its locals are gone, the caller holds the result.
Returned(c, result) ==
    /\ pc' = [pc EXCEPT ![c] = "done"]
    /\ outcome' = [outcome EXCEPT ![c] = result]
    /\ current_url' = [current_url EXCEPT ![c] = NoUrl]
    /\ target_url' = [target_url EXCEPT ![c] = NoUrl]
    /\ attempts' = [attempts EXCEPT ![c] = 0]
    /\ sent' = [sent EXCEPT ![c] = 0]
    /\ followed' = [followed EXCEPT ![c] = 0]

\* The head of the loop with the redirect budget used up.
Exhausted(c) ==
    /\ pc[c] = "loop"
    /\ redirects_exhausted(attempts[c])
    /\ Returned(c, Failure("MaxRedirectsExceeded", ""))
    /\ UNCHANGED <<supervisor_cache, module, started, last_update>>
    /\ UNCHANGED <<builder_vars, lock_vars>>

\* The head of the loop with the attempt counter kept in the client instead
\* of in the call: the increment is seen by every call.
Attempt_shared_counter(c) ==
    /\ pc[c] = "loop"
    /\ ~redirects_exhausted(attempts[c])
    /\ attempts' = [d \in Calls |-> attempts[d] + 1]
    /\ LET opt == cache_get(supervisor_cache, module[c])
       IN  \E i \in ChoiceIndices(opt) :
              target_url' = [target_url EXCEPT
                               ![c] = get_request_url(current_url[c], opt, i)]
    /\ sent' = [sent EXCEPT ![c] = @ + 1]
    /\ pc' = [pc EXCEPT ![c] = "await"]
    /\ UNCHANGED <<supervisor_cache, module, current_url, outcome, followed,
                   started, last_update>>
    /\ UNCHANGED <<builder_vars, lock_vars>>

\* The head of the loop otherwise: attempts += 1, get_request_url (one cache
\* lookup under the lock, then the random choice), and the request is sent.
Attempt(c) ==
    /\ pc[c] = "loop"
    /\ ~redirects_exhausted(attempts[c])
    /\ attempts' = [attempts EXCEPT ![c] = @ + 1]
    /\ LET opt == cache_get(supervisor_cache, module[c])
       IN  \E i \in ChoiceIndices(opt) :
              target_url' = [target_url EXCEPT
                               ![c] = get_request_url(current_url[c], opt, i)]
    /\ sent' = [sent EXCEPT ![c] = @ + 1]
    /\ pc' = [pc EXCEPT ![c] = "await"]
    /\ UNCHANGED <<supervisor_cache, module, current_url, outcome, followed,
                   started, last_update>>
    /\ UNCHANGED <<builder_vars, lock_vars>>

\* .send().await completes with resp and the rest of the loop body runs.
Respond(c, resp) ==
    /\ pc[c] = "await"
    /\ LET step == on_response(resp, target_url[c], current_url[c],
                               supervisor_cache, module[c])
       IN  /\ supervisor_cache' = step.cache
           /\ last_update' = IF step.updated.some
                             THEN [last_update EXCEPT ![module[c]] = step.updated]
                             ELSE last_update
           /\ IF step.continue
              THEN /\ pc' = [pc EXCEPT ![c] = "loop"]
                   /\ current_url' = [current_url EXCEPT ![c] = step.current_url]
                   /\ followed' = [followed EXCEPT ![c] = @ + 1]
                   /\ UNCHANGED <<outcome, target_url, attempts, sent>>
              ELSE Returned(c, step.outcome)
    /\ UNCHANGED <<module, started>>
    /\ UNCHANGED <<builder_vars, lock_vars>>

Next ==
    \E c \in Calls :
        \/ \E m \in Modules : Execute(c, m)
        \/ Exhausted(c)
        \/ Attempt(c)
        \/ \E resp \in Responses : Respond(c, resp)

Spec == Init /\ [][Next]_vars

\* The same client with one call at a time: a call starts only while no
\* other call is inside send_request.
ExecuteAlone(c, m) ==
    /\ \A d \in Calls : ~Running(d)
    /\ Execute(c, m)

NextSeq ==
    \E c \in Calls :
        \/ \E m \in Modules : ExecuteAlone(c, m)
        \/ Exhausted(c)
        \/ Attempt(c)
        \/ \E resp \in Responses : Respond(c, resp)

SpecSeq == Init /\ [][NextSeq]_vars

\* ------------------------------------------------------------------ a stale entry

\* The deployment in which the cache entry of module m1 has gone stale:
\* m1 has moved to the supervisors a:1 and b:80, and the client still holds
\* the list it was given before the move.
StaleModule == "m1"

\* The endpoints (host, port) that serve StaleModule now.
Serving == { << <<"a">>, 1 >>, << <<"b">>, 80 >> }

\* The entry cached before the move: the one supervisor s:9.
StaleList == << <<"s", ":", "9">> >>

Serves(url) == <<url.host, PortOrKnownDefault(url)>> \in Serving

\* What the endpoint the request for StaleModule went to answers: a serving
\* endpoint a 200 with a decodable body, any other endpoint a 308 with a
\* Location that is a URL and the list of the serving endpoints.
ServerAnswers(url) ==
    IF Serves(url)
    THEN {MkResponse("http", 200, TRUE, NoHeader, NoHeader)}
    ELSE {MkResponse("http", 308, FALSE, TextHeader("https://e/moved?x=1"),
                     TextHeader("[\"a:1\",\"b:80\"]"))}

\* The client after an earlier redirect for StaleModule gave it StaleList.
InitStale ==
    /\ supervisor_cache = [EmptyCache EXCEPT ![StaleModule] = Some(StaleList)]
    /\ pc = [c \in Calls |-> "idle"]
    /\ module = [c \in Calls |-> "m1"]
    /\ current_url = [c \in Calls |-> NoUrl]
    /\ attempts = [c \in Calls |-> 0]
    /\ target_url = [c \in Calls |-> NoUrl]
    /\ outcome = [c \in Calls |-> NoOutcome]
    /\ sent = [c \in Calls |-> 0]
    /\ followed = [c \in Calls |-> 0]
    /\ started = 0
    /\ last_update = [[m \in Modules |-> None] EXCEPT ![StaleModule] = Some(StaleList)]
    /\ path = new_path
    /\ applied = <<>>
    /\ lock_owner = None
    /\ pending = [c \in Calls |-> NoResponse]

\* .send().await completes: a request for StaleModule is answered as the
\* deployment answers it, a request for another module in any way.
RespondServed(c) ==
    \E resp \in (IF module[c] = StaleModule
                 THEN ServerAnswers(target_url[c])
                 ELSE Responses) :
        Respond(c, resp)

NextStale ==
    \E c \in Calls :
        \/ \E m \in Modules : Execute(c, m)
        \/ Exhausted(c)
        \/ Attempt(c)
        \/ RespondServed(c)

SpecStale == InitStale /\ [][NextStale]_vars

\* ------------------------------------------------------------------ building a path

\* The longest path built.
MaxPath == 2

\* A builder method is called: it consumes the builder and returns it with
\* new_steps as its path.
Call(op, arg, new_steps) ==
    /\ path' = new_steps
    /\ applied' = Append(applied, [op |-> op, arg |-> arg])
    /\ UNCHANGED <<client_vars, lock_vars>>

NavLong ==
    /\ Len(path) < MaxPath
    /\ \E v \in Longs :
           Call("rama_long", v, nav(path, rama_long(v)))

NavByte ==
    /\ Len(path) < MaxPath
    /\ \E v \in Bytes :
           Call("rama_byte", v, nav(path, rama_byte(v)))

NavShort ==
    /\ Len(path) < MaxPath
    /\ \E v \in Shorts :
           Call("rama_short", v, nav(path, rama_short(v)))

NavFloat ==
    /\ Len(path) < MaxPath
    /\ \E v \in Floats :
           Call("rama_float", v, nav(path, rama_float(v)))

NavChar ==
    /\ Len(path) < MaxPath
    /\ \E v \in Chars :
           Call("rama_char", v, nav(path, rama_char(v)))

NavKeyword ==
    /\ Len(path) < MaxPath
    /\ \E v \in Names :
           Call("rama_keyword", v, nav(path, rama_keyword(v)))

NavFunction ==
    /\ Len(path) < MaxPath
    /\ \E v \in FunctionNames :
           Call("rama_function", v, nav(path, rama_function(v)))

NavOpsFunction ==
    /\ Len(path) < MaxPath
    /\ \E v \in OpsNames :
           Call("rama_ops_function", v, nav(path, rama_ops_function(v)))

Key ==
    /\ Len(path) < MaxPath
    /\ \E k \in Names :
           Call("key", k, key(path, k))

FilterPredFn ==
    /\ Len(path) < MaxPath
    /\ \E n \in FunctionNames :
           Call("filter_pred_fn", n, filter_pred_fn(path, n))

All ==
    /\ Len(path) < MaxPath
    /\ Call("all", <<>>, all(path))

Must ==
    /\ Len(path) < MaxPath
    /\ \E keys \in KeyLists :
           Call("must", keys, must(path, keys))

MapVals ==
    /\ Len(path) < MaxPath
    /\ Call("map_vals", <<>>, map_vals(path))

FilterSelected ==
    /\ Len(path) < MaxPath
    /\ \E sub \in SubPaths :
           Call("filter_selected", sub, filter_selected(path, sub))

Subselect ==
    /\ Len(path) < MaxPath
    /\ \E sub \in SubPaths :
           Call("subselect", sub, subselect(path, sub))

NextBuilder ==
    \/ NavLong
    \/ NavByte
    \/ NavShort
    \/ NavFloat
    \/ NavChar
    \/ NavKeyword
    \/ NavFunction
    \/ NavOpsFunction
    \/ Key
    \/ FilterPredFn
    \/ All
    \/ Must
    \/ MapVals
    \/ FilterSelected
    \/ Subselect

SpecBuilder == Init /\ [][NextBuilder]_vars

\* ------------------------------------------------------------------ the lock

\* The same client with the Mutex of supervisor_cache as a step of its own:
\* lock() waits until no call holds the Mutex, and the guard is dropped at
\* the end of the statement or block that took it.

\* The head of the loop up to `self.supervisor_cache.lock()` in
\* get_request_url: the budget is not used up, attempts += 1, and the call
\* gets the Mutex.
LockForLookup(c) ==
    /\ pc[c] = "loop"
    /\ ~redirects_exhausted(attempts[c])
    /\ lock_owner = None
    /\ lock_owner' = Some(c)
    /\ attempts' = [attempts EXCEPT ![c] = @ + 1]
    /\ pc' = [pc EXCEPT ![c] = "lookup"]
    /\ UNCHANGED <<supervisor_cache, module, current_url, target_url, outcome,
                   sent, followed, started, last_update, pending>>
    /\ UNCHANGED builder_vars

\* A lookup whose guard lives on after the block, across the send.
LookupAndKeepLock(c) ==
    /\ pc[c] = "lookup"
    /\ lock_owner = Some(c)
    /\ LET opt == cache_get(supervisor_cache, module[c])
       IN  \E i \in ChoiceIndices(opt) :
              target_url' = [target_url EXCEPT
                               ![c] = get_request_url(current_url[c], opt, i)]
    /\ sent' = [sent EXCEPT ![c] = @ + 1]
    /\ pc' = [pc EXCEPT ![c] = "await"]
    /\ UNCHANGED <<supervisor_cache, module, current_url, attempts, outcome,
                   followed, started, last_update, lock_owner, pending>>
    /\ UNCHANGED builder_vars

\* cache.get(module).cloned() and the end of the lock scope; then the random
\* choice, and the request is sent.
LookupAndUnlock(c) ==
    /\ pc[c] = "lookup"
    /\ lock_owner = Some(c)
    /\ lock_owner' = None
    /\ LET opt == cache_get(supervisor_cache, module[c])
       IN  \E i \in ChoiceIndices(opt) :
              target_url' = [target_url EXCEPT
                               ![c] = get_request_url(current_url[c], opt, i)]
    /\ sent' = [sent EXCEPT ![c] = @ + 1]
    /\ pc' = [pc EXCEPT ![c] = "await"]
    /\ UNCHANGED <<supervisor_cache, module, current_url, attempts, outcome,
                   followed, started, last_update, pending>>
    /\ UNCHANGED builder_vars

\* The response is a 308 whose handling gets as far as the cache update.
reaches_insert(resp) ==
    /\ resp.kind = "http"
    /\ resp.status = 308
    /\ location_str(resp).ok
    /\ supervisor_str(resp).ok
    /\ from_str(supervisor_str(resp).val).ok

\* .send().await completes with resp: the loop body runs to its return, or,
\* for a 308 with both headers and a parsed list, up to the lock() of the
\* cache update.
Receive(c, resp) ==
    IF reaches_insert(resp)
    THEN /\ pc[c] = "await"
         /\ pending' = [pending EXCEPT ![c] = resp]
         /\ pc' = [pc EXCEPT ![c] = "update"]
         /\ UNCHANGED <<supervisor_cache, module, current_url, attempts,
                        target_url, outcome, sent, followed, started,
                        last_update, lock_owner>>
         /\ UNCHANGED builder_vars
    ELSE Respond(c, resp)

\* self.supervisor_cache.lock() of the cache update: the call gets the Mutex.
LockForInsert(c) ==
    /\ pc[c] = "update"
    /\ lock_owner = None
    /\ lock_owner' = Some(c)
    /\ pc' = [pc EXCEPT ![c] = "insert"]
    /\ UNCHANGED <<supervisor_cache, module, current_url, attempts, target_url,
                   outcome, sent, followed, started, last_update, pending>>
    /\ UNCHANGED builder_vars

\* .insert(module.to_string(), supervisors), the guard dropped at the end of
\* the statement; then Url::parse(location_str) and `continue` or the return.
InsertAndUnlock(c) ==
    /\ pc[c] = "insert"
    /\ lock_owner = Some(c)
    /\ lock_owner' = None
    /\ pending' = [pending EXCEPT ![c] = NoResponse]
    /\ LET step == on_redirect(pending[c], current_url[c], supervisor_cache,
                               module[c])
       IN  /\ supervisor_cache' = step.cache
           /\ last_update' = [last_update EXCEPT ![module[c]] = step.updated]
           /\ IF step.continue
              THEN /\ pc' = [pc EXCEPT ![c] = "loop"]
                   /\ current_url' = [current_url EXCEPT ![c] = step.current_url]
                   /\ followed' = [followed EXCEPT ![c] = @ + 1]
                   /\ UNCHANGED <<outcome, target_url, attempts, sent>>
              ELSE Returned(c, step.outcome)
    /\ UNCHANGED <<module, started>>
    /\ UNCHANGED builder_vars

\* What .send().await yields here: one response for every way the loop body
\* can go (a failed send, a 200 that decodes or does not, another status, a
\* 308 that ends before the cache update, one that updates the cache and
\* fails on its Location, one that is followed).
LockResponses ==
    {MkResponse("error", 0, FALSE, NoHeader, NoHeader),
     MkResponse("http", 200, TRUE, NoHeader, NoHeader),
     MkResponse("http", 200, FALSE, NoHeader, NoHeader),
     MkResponse("http", 500, FALSE, NoHeader, NoHeader),
     MkResponse("http", 308, FALSE, NoHeader, TextHeader("[\"a:1\",\"b:80\"]")),
     MkResponse("http", 308, FALSE, TextHeader("https://e/moved?x=1"), BinaryHeader),
     MkResponse("http", 308, FALSE, TextHeader("https://e/moved?x=1"), TextHeader("{oops")),
     MkResponse("http", 308, FALSE, TextHeader("not a url"), TextHeader("[\"a:1\",\"b:80\"]")),
     MkResponse("http", 308, FALSE, TextHeader("https://e/moved?x=1"),
                TextHeader("[\"a:1\",\"b:80\"]"))}

\* The steps of call c once it has started.
StepOf(c) ==
    \/ Exhausted(c)
    \/ LockForLookup(c)
    \/ LookupAndUnlock(c)
    \/ \E resp \in LockResponses : Receive(c, resp)
    \/ LockForInsert(c)
    \/ InsertAndUnlock(c)

\* The module the calls of this specification are for: the one Mutex guards
\* the whole map, whatever the key.
LockModule == "m1"

NextLock ==
    \E c \in Calls :
        \/ Execute(c, LockModule)
        \/ Exhausted(c)
        \/ LockForLookup(c)
        \/ LookupAndUnlock(c)
        \/ \E resp \in LockResponses : Receive(c, resp)
        \/ LockForInsert(c)
        \/ InsertAndUnlock(c)

\* The executor runs every call that can take a step, and the transport
\* answers every request.
SpecLock ==
    /\ Init
    /\ [][NextLock]_vars
    /\ \A c \in Calls : WF_vars(StepOf(c))

\* ------------------------------------------------------------------ responses by case

\* The step is call c receiving resp and running the rest of the loop body.
Receives(c, resp) == pc[c] = "await" /\ pc'[c] # "await" /\ Respond(c, resp)

IsOk200(resp) == resp.kind = "http" /\ resp.status = 200 /\ resp.body_ok

IsRedirect(resp) == resp.kind = "http" /\ resp.status = 308

\* A 308 whose Location is text that parses as a URL and whose
\* Supervisor-Locations is text that parses as a JSON array of strings.
ValidRedirect(resp) ==
    /\ IsRedirect(resp)
    /\ resp.location.present /\ resp.location.ascii
    /\ UrlParse(resp.location.text).ok
    /\ resp.supervisors.present /\ resp.supervisors.ascii
    /\ from_str(resp.supervisors.text).ok

\* ------------------------------------------------------------------ C1

\* C1: with no other call running, a call whose first k responses were valid
\* 308s (k = followed, and k < max_redirects) and whose next response is a
\* 200 with a decodable body returns success having sent exactly k + 1
\* requests, and for k >= 1 the cache entry of its module is then exactly the
\* list of the latest redirect update, which is its k-th redirect.
C1_RedirectsThenSuccess ==
    [][\A c \in Calls : \A resp \in Responses :
          (IsOk200(resp) /\ Receives(c, resp)) =>
              /\ pc'[c] = "done"
              /\ outcome'[c].kind = "Ok"
              /\ followed[c] < max_redirects
              /\ sent[c] = followed[c] + 1
              /\ (followed[c] >= 1 =>
                     /\ last_update[module[c]].some
                     /\ supervisor_cache'[module[c]] = last_update[module[c]])]_vars

\* The only call ever started was redirected and then succeeded.
C1_Witness ==
    \E c \in Calls :
        /\ started = 1
        /\ pc[c] = "done"
        /\ outcome[c].kind = "Ok"
        /\ supervisor_cache[module[c]].some
        /\ Len(supervisor_cache[module[c]].val) = 2

\* ------------------------------------------------------------------ C2

\* C2: a call never sends more than max_redirects requests, and a call that
\* has followed max_redirects valid 308s can only return
\* MaxRedirectsExceeded, having sent exactly max_redirects requests.
C2_BudgetExhausted ==
    /\ [](\A c \in Calls : sent[c] <= max_redirects /\ followed[c] <= max_redirects)
    /\ [][\A c \in Calls :
            (followed[c] = max_redirects /\ pc'[c] # pc[c]) =>
                /\ pc'[c] = "done"
                /\ outcome'[c].kind = "MaxRedirectsExceeded"
                /\ sent[c] = max_redirects
                /\ sent' = [sent EXCEPT ![c] = 0]]_vars

C2_Witness ==
    \E c \in Calls : pc[c] = "done" /\ outcome[c].kind = "MaxRedirectsExceeded"

\* ------------------------------------------------------------------ C3

\* C3: a 308 that is not a valid redirect (Location missing, not text or not
\* a URL, or Supervisor-Locations missing, not text or not a JSON list) ends
\* the call with an error and leaves the whole cache as it was.
C3_CacheOnlyOnParsedRedirect ==
    [][\A c \in Calls : \A resp \in Responses :
          (IsRedirect(resp) /\ ~ValidRedirect(resp) /\ Receives(c, resp)) =>
              /\ pc'[c] = "done"
              /\ outcome'[c].kind \notin {"None", "Ok"}
              /\ supervisor_cache' = supervisor_cache]_vars

\* ------------------------------------------------------------------ C4

\* C4 as claimed: every 308 without a Supervisor-Locations header, whatever
\* its Location, ends the call with MissingSupervisorLocationsHeader and
\* leaves the cache as it was.
C4_MissingSupervisorsAnyLocation ==
    [][\A c \in Calls : \A resp \in Responses :
          (IsRedirect(resp) /\ ~resp.supervisors.present /\ Receives(c, resp)) =>
              /\ pc'[c] = "done"
              /\ outcome'[c].kind = "MissingSupervisorLocationsHeader"
              /\ supervisor_cache' = supervisor_cache]_vars

\* C4 as amended: a 308 without a Supervisor-Locations header ends the call
\* (no further request) and leaves the cache as it was; the error is
\* MissingSupervisorLocationsHeader when the Location header is present and
\* is text, and MissingLocationHeader when it is missing or is not text.
C4_MissingSupervisors ==
    [][\A c \in Calls :
          (pc[c] = "await" /\ pc'[c] # "await") =>
              \A resp \in Responses :
                  (IsRedirect(resp) /\ ~resp.supervisors.present
                     /\ Receives(c, resp)) =>
                      /\ pc'[c] = "done"
                      /\ sent'[c] = 0
                      /\ outcome'[c].kind =
                            IF resp.location.present /\ resp.location.ascii
                            THEN "MissingSupervisorLocationsHeader"
                            ELSE "MissingLocationHeader"
                      /\ supervisor_cache' = supervisor_cache]_vars

\* A call has failed on the missing header and its module's entry, written
\* by an earlier redirect, is still there.
C4_Witness ==
    \E c \in Calls :
        /\ pc[c] = "done"
        /\ outcome[c].kind = "MissingSupervisorLocationsHeader"
        /\ supervisor_cache[module[c]].some
        /\ Len(supervisor_cache[module[c]].val) = 2

\* ------------------------------------------------------------------ C5

\* The entry is "host:port" with a host the URL accepts and a u16 port.
WellFormed(entry) ==
    /\ split_once(entry).some
    /\ split_once(entry).val[1] # <<>>
    /\ parse_u16(split_once(entry).val[2]).ok

\* url's host and port are those of some entry of list.
ContactsMemberOf(url, list) ==
    \E i \in 1..Len(list) :
        /\ WellFormed(list[i])
        /\ url.host = split_once(list[i]).val[1]
        /\ PortOrKnownDefault(url) = parse_u16(split_once(list[i]).val[2]).val

\* C5 as claimed: when the cache holds a non-empty list for the module at
\* the lookup, the URL contacted has the host and port of a member of it.
C5_ContactsOnlyCached ==
    [][\A c \in Calls :
          (Attempt(c) /\ supervisor_cache[module[c]].some
                      /\ supervisor_cache[module[c]].val # <<>>) =>
              ContactsMemberOf(target_url'[c], supervisor_cache[module[c]].val)]_vars

\* C5 as amended: when the cache holds a non-empty list for the module at the
\* lookup, the URL contacted either has the host and port of a well-formed
\* member of the list or, only when the list holds an entry that is not
\* well-formed, is the current target URL unchanged.
C5_ContactsCachedOrFallsBack ==
    [][\A c \in Calls :
          (Attempt(c) /\ supervisor_cache[module[c]].some
                      /\ supervisor_cache[module[c]].val # <<>>) =>
              LET list == supervisor_cache[module[c]].val
              IN  \/ ContactsMemberOf(target_url'[c], list)
                  \/ /\ \E i \in 1..Len(list) : ~WellFormed(list[i])
                     /\ target_url'[c] = current_url[c]]_vars

\* A request is in flight to a cached endpoint that is not the host of the
\* call's current target.
C5_Witness ==
    \E c \in Calls :
        /\ pc[c] = "await"
        /\ supervisor_cache[module[c]].some
        /\ ContactsMemberOf(target_url[c], supervisor_cache[module[c]].val)
        /\ target_url[c].host # current_url[c].host

\* ------------------------------------------------------------------ C6

\* C6: a response with a status other than 200 and 308 ends the call with
\* UnexpectedStatus carrying that status and the contacted URL; the call has
\* then sent one request more than it followed redirects, so one request and
\* no redirect when the response is its first.
C6_UnexpectedStatus ==
    [][\A c \in Calls : \A resp \in Responses :
          (resp.kind = "http" /\ resp.status \notin {200, 308} /\ Receives(c, resp)) =>
              /\ pc'[c] = "done"
              /\ outcome'[c] = MkOutcome("UnexpectedStatus", "", resp.status, target_url[c])
              /\ sent[c] = followed[c] + 1
              /\ sent[c] = attempts[c]
              /\ supervisor_cache' = supervisor_cache]_vars

\* A first response of 500: the error carries 500 and the initial URL.
C6_Witness ==
    \E c \in Calls :
        /\ pc[c] = "done"
        /\ outcome[c].kind = "UnexpectedStatus"
        /\ outcome[c].status = 500
        /\ outcome[c].url = build_url(module[c])

\* ------------------------------------------------------------------ C7

\* C7: a failed send ends the call at once with the Http error; the call has
\* then sent one request more than it followed redirects.
C7_TransportFailure ==
    [][\A c \in Calls : \A resp \in Responses :
          (resp.kind = "error" /\ Receives(c, resp)) =>
              /\ pc'[c] = "done"
              /\ outcome'[c].kind = "Http"
              /\ outcome'[c].cause = "send"
              /\ sent[c] = followed[c] + 1
              /\ supervisor_cache' = supervisor_cache]_vars

\* A send failed while the cache held endpoints the call could have tried.
C7_Witness ==
    \E c \in Calls :
        /\ pc[c] = "done"
        /\ outcome[c].kind = "Http"
        /\ outcome[c].cause = "send"
        /\ supervisor_cache[module[c]].some
        /\ Len(supervisor_cache[module[c]].val) = 2

\* ------------------------------------------------------------------ C8

\* C8: every call that has returned holds one result, and a call that failed
\* on a body that did not decode holds an error kind other than that of a
\* call that failed on the send.
C8_DistinctErrorKinds ==
    /\ \A c \in Calls : pc[c] = "done" => outcome[c].kind # "None"
    /\ \A c, d \in Calls :
          (/\ pc[c] = "done" /\ outcome[c].cause = "decode"
           /\ pc[d] = "done" /\ outcome[d].cause = "send") =>
              outcome[c].kind # outcome[d].kind

\* ------------------------------------------------------------------ C9

\* C9: a lookup that finds the empty list and a lookup that finds no entry
\* resolve alike: the request goes to the current target URL unchanged.
C9_EmptyIsAbsent ==
    [][\A c \in Calls :
          (Attempt(c) /\ supervisor_cache[module[c]] \in {None, Some(<<>>)}) =>
              target_url'[c] = current_url[c]]_vars

\* A request is in flight to a redirect's Location while the cache holds the
\* empty list for the module.
C9_Witness ==
    \E c \in Calls :
        /\ pc[c] = "await"
        /\ followed[c] >= 1
        /\ supervisor_cache[module[c]] = Some(<<>>)
        /\ target_url[c] = current_url[c]

\* ------------------------------------------------------------------ C10

\* C10: under any interleaving, what a lookup for a module returns is absent
\* when no redirect update was applied for it, and otherwise exactly the
\* list of the latest redirect update applied for it.
C10_NoTornRead ==
    [][\A c \in Calls :
          Attempt(c) =>
              cache_get(supervisor_cache, module[c]) = last_update[module[c]]]_vars

\* Two calls on one module are both waiting for a response, the module's
\* entry was written, and one of them contacts an endpoint read from it.
C10_Witness ==
    \E c, d \in Calls :
        /\ c # d
        /\ module[c] = module[d]
        /\ pc[c] = "await" /\ pc[d] = "await"
        /\ followed[c] >= 1 /\ followed[d] >= 1
        /\ supervisor_cache[module[c]].some
        /\ target_url[c].host = <<"a">>

\* ------------------------------------------------------------------ C11

\* C11: the cache entry of every module is at every moment the list of the
\* update that was applied last in the interleaving, whichever call applied
\* it and in whatever order the calls were started; so it is once all calls
\* have finished.
C11_LastWriterWins ==
    \A m \in Modules : supervisor_cache[m] = last_update[m]

\* Two calls on one module have each followed max_redirects valid 308s and
\* have finished, and the module's entry is the two-endpoint list.
C11_Witness ==
    \E c, d \in Calls :
        /\ c # d
        /\ module[c] = module[d]
        /\ pc[c] = "done" /\ outcome[c].kind = "MaxRedirectsExceeded"
        /\ pc[d] = "done" /\ outcome[d].kind = "MaxRedirectsExceeded"
        /\ supervisor_cache[module[c]].some
        /\ Len(supervisor_cache[module[c]].val) = 2

\* ------------------------------------------------------------------ C12

\* The cache entry lists only well-formed endpoints none of which serves
\* StaleModule.
StaleEntry(opt) ==
    /\ opt.some
    /\ opt.val # <<>>
    /\ \A i \in 1..Len(opt.val) :
           /\ WellFormed(opt.val[i])
           /\ << split_once(opt.val[i]).val[1],
                 parse_u16(split_once(opt.val[i]).val[2]).val >> \notin Serving

\* C12: with a budget of at least two requests, a call on a module whose
\* cache entry is stale, where every endpoint not serving the module answers
\* 308 with a valid Location and the list of the serving endpoints and every
\* serving endpoint answers a decodable 200: its first request goes to a
\* stale endpoint and is its only redirect, its second request goes to a
\* serving endpoint, and it returns success there, after exactly two
\* requests; no call on the module ever returns an error or sends a third
\* request.
C12_StaleCostsOneRoundTrip ==
    /\ max_redirects >= 2
    /\ [][\A c \in Calls :
            module[c] = StaleModule =>
              /\ (Attempt(c) /\ attempts[c] = 0
                    /\ StaleEntry(supervisor_cache[StaleModule]))
                   => ~Serves(target_url'[c])
              /\ (Attempt(c) /\ attempts[c] >= 1) => Serves(target_url'[c])
              /\ \A resp \in ServerAnswers(target_url[c]) :
                   Receives(c, resp) =>
                     IF Serves(target_url[c])
                     THEN /\ pc'[c] = "done"
                          /\ outcome'[c].kind = "Ok"
                          /\ sent[c] = followed[c] + 1
                          /\ sent[c] <= 2
                     ELSE /\ pc'[c] = "loop"
                          /\ sent[c] = 1
                          /\ followed'[c] = 1
                          /\ supervisor_cache'[StaleModule].some
                          /\ ~StaleEntry(supervisor_cache'[StaleModule])]_vars
    /\ [](\A c \in Calls :
            (module[c] = StaleModule /\ pc[c] = "done") => outcome[c].kind = "Ok")

\* The one call started so far found the stale entry, was redirected once
\* and is about to receive the answer of the serving endpoint it contacted
\* with its second request.
C12_Witness ==
    \E c \in Calls :
        /\ started = 1
        /\ module[c] = StaleModule
        /\ pc[c] = "await"
        /\ sent[c] = 2
        /\ followed[c] = 1
        /\ Serves(target_url[c])

\* ------------------------------------------------------------------ C15

\* C15: the cache entry of a module changes only in a step in which a call
\* on that module handles a 308 response; every other step (a 200, another
\* status, a transport or decode failure, the budget running out, a lookup,
\* the start of a call, any step of a call on another module) leaves it as
\* it was.
C15_CacheFrame ==
    [][\A m \in Modules :
          supervisor_cache'[m] # supervisor_cache[m] =>
              \E c \in Calls :
                  /\ module[c] = m
                  /\ pc[c] = "await"
                  /\ \E resp \in Responses :
                         IsRedirect(resp) /\ Respond(c, resp)]_vars

\* A call has been ended by an unexpected status while its module had an
\* entry and the other module had none.
C15_Witness ==
    \E c \in Calls :
        /\ pc[c] = "done"
        /\ outcome[c].kind = "UnexpectedStatus"
        /\ supervisor_cache[module[c]].some
        /\ \E m \in Modules : ~supervisor_cache[m].some

\* ------------------------------------------------------------------ C16

Range(seq) == {seq[i] : i \in 1..Len(seq)}

\* A 308 that gets as far as the cache update: Location is text and
\* Supervisor-Locations is text that parses as a list.
UpdatingRedirect(resp) ==
    /\ IsRedirect(resp)
    /\ resp.location.present /\ resp.location.ascii
    /\ resp.supervisors.present /\ resp.supervisors.ascii
    /\ from_str(resp.supervisors.text).ok

\* C16: right after a call on a module has applied a redirect whose list
\* parsed as L, the module's entry is L itself, the same elements in the same
\* order, and an endpoint of the entry before that is not in L is not in the
\* entry any more.
C16_FullReplace ==
    [][\A c \in Calls :
          (pc[c] = "await" /\ pc'[c] # "await") =>
              \A resp \in Responses :
                  (UpdatingRedirect(resp) /\ Respond(c, resp)) =>
                      LET L   == from_str(resp.supervisors.text).val
                          old == supervisor_cache[module[c]]
                          new == supervisor_cache'[module[c]]
                      IN  /\ new = Some(L)
                          /\ old.some =>
                               \A e \in Range(old.val) \ Range(L) :
                                   e \notin Range(new.val)]_vars

\* A call has followed two redirects and its module's entry is the
\* five-entry list, in which b:80 of the two-entry list does not occur.
C16_Witness ==
    \E c \in Calls :
        /\ pc[c] = "loop"
        /\ followed[c] = 2
        /\ supervisor_cache[module[c]].some
        /\ Len(supervisor_cache[module[c]].val) = 5

\* ------------------------------------------------------------------ C17

\* C17: the attempt counter and the current target URL of a call change only
\* in a step of that call (its start, the head of its loop, its handling of
\* a response: the steps that move the call's own position and no other
\* call's), never in a step of another call, and a call never has sent more
\* than max_redirects requests, whatever the other calls do.
C17_CallLocalState ==
    /\ [](\A c \in Calls : sent[c] <= max_redirects /\ attempts[c] <= max_redirects)
    /\ [][\A c \in Calls :
            (attempts'[c] # attempts[c] \/ current_url'[c] # current_url[c]) =>
                /\ pc'[c] # pc[c]
                /\ \A d \in Calls \ {c} :
                       /\ pc'[d] = pc[d]
                       /\ attempts'[d] = attempts[d]
                       /\ current_url'[d] = current_url[d]
                       /\ sent'[d] = sent[d]]_vars

\* Two calls are in flight at once, one with its last permitted request and
\* the other with its first.
C17_Witness ==
    \E c, d \in Calls :
        /\ pc[c] = "await" /\ pc[d] = "await"
        /\ sent[c] = max_redirects /\ attempts[c] = max_redirects
        /\ sent[d] = 1 /\ attempts[d] = 1

\* ------------------------------------------------------------------ C18

\* C18: the URL a request goes to has the scheme, the path and the query of
\* the call's current target URL, so a substituted cached endpoint changes
\* host and port only; and the current target URL is
\* {base}/rest/{module}/{suffix} at the call's first attempt and, once a
\* redirect was followed, the URL its Location parsed to.
C18_OnlyHostAndPort ==
    [][\A c \in Calls :
          /\ (pc[c] = "loop" /\ pc'[c] = "await" /\ Attempt(c)) =>
                /\ target_url'[c].scheme = current_url[c].scheme
                /\ target_url'[c].path = current_url[c].path
                /\ target_url'[c].query = current_url[c].query
                /\ attempts[c] = 0 =>
                     current_url[c] =
                         MkUrl("http", <<"c">>, 8888,
                               <<"rest", module[c], "pstate", "$$p", "select">>, "")
          /\ (pc[c] = "await" /\ pc'[c] = "loop") =>
                \A resp \in Responses :
                    (ValidRedirect(resp) /\ Respond(c, resp)) =>
                        current_url'[c] = UrlParse(resp.location.text).val]_vars

\* A request is in flight to a cached endpoint: host and port are those of
\* the entry a:1, scheme, path and query those of the current target URL,
\* the Location of the redirect followed before.
C18_Witness ==
    \E c \in Calls :
        /\ pc[c] = "await"
        /\ followed[c] >= 1
        /\ target_url[c].host = <<"a">>
        /\ target_url[c].port = 1
        /\ current_url[c].host = <<"e">>
        /\ target_url[c].scheme = "https"
        /\ target_url[c].path = <<"moved">>
        /\ target_url[c].query = "x=1"

\* ------------------------------------------------------------------ C19

\* The error kind with which the call would end on resp.
KindOn(c, resp) ==
    on_response(resp, target_url[c], current_url[c], supervisor_cache,
                module[c]).outcome.kind

\* C19: a 308 whose Location or Supervisor-Locations header holds bytes
\* that are no text ends the call with the error kind it would end with if
\* that header were missing (the missing-Location kind when Location is the
\* one, else the missing-Supervisor-Locations kind), and the cache stays as
\* it was.
C19_UnreadableHeaderAsMissing ==
    [][\A c \in Calls :
          (pc[c] = "await" /\ pc'[c] # "await") =>
              \A resp \in Responses :
                  (/\ IsRedirect(resp)
                   /\ (resp.location = BinaryHeader \/ resp.supervisors = BinaryHeader)
                   /\ Respond(c, resp)) =>
                      /\ pc'[c] = "done"
                      /\ supervisor_cache' = supervisor_cache
                      /\ sent'[c] = 0
                      /\ outcome'[c].kind \in {"MissingLocationHeader",
                                               "MissingSupervisorLocationsHeader"}
                      /\ resp.location = BinaryHeader =>
                           /\ outcome'[c].kind = "MissingLocationHeader"
                           /\ outcome'[c].kind =
                                  KindOn(c, [resp EXCEPT !.location = NoHeader])
                      /\ resp.supervisors = BinaryHeader =>
                           /\ outcome'[c].kind =
                                  KindOn(c, [resp EXCEPT !.supervisors = NoHeader])
                           /\ (resp.location.present /\ resp.location.ascii) =>
                                  outcome'[c].kind = "MissingSupervisorLocationsHeader"]_vars

\* A call has ended with the missing-Location error and another with the
\* missing-Supervisor-Locations error while the entry of their module, set
\* by an earlier redirect, is still there.
C19_Witness ==
    \E c, d \in Calls :
        /\ pc[c] = "done" /\ pc[d] = "done"
        /\ module[c] = module[d]
        /\ outcome[c].kind = "MissingLocationHeader"
        /\ outcome[d].kind = "MissingSupervisorLocationsHeader"
        /\ supervisor_cache[module[c]].some

\* ------------------------------------------------------------------ C20

\* C20: with one call at a time (so that no other call updates the cache in
\* between), the request a call makes after it followed a redirect whose
\* list is non-empty with well-formed entries only goes to the host and port
\* of a member of that list, with the scheme, path and query of the
\* redirect's Location; it goes to the Location's own host and port only
\* when those are the chosen member's.
C20_NextRequestUsesNewList ==
    [][\A c \in Calls :
          (pc[c] = "loop" /\ pc'[c] = "await" /\ followed[c] >= 1 /\ Attempt(c)) =>
              LET list == last_update[module[c]]
                  loc  == current_url[c]
                  url  == target_url'[c]
              IN  (/\ list.some
                   /\ list.val # <<>>
                   /\ \A i \in 1..Len(list.val) : WellFormed(list.val[i])) =>
                      /\ url.scheme = loc.scheme
                      /\ url.path = loc.path
                      /\ url.query = loc.query
                      /\ ContactsMemberOf(url, list.val)
                      /\ (url.host = loc.host
                            /\ PortOrKnownDefault(url) = PortOrKnownDefault(loc)) =>
                           ContactsMemberOf(loc, list.val)]_vars

\* The only call so far has followed a redirect with the list [a:1, b:80]
\* and Location https://e/moved?x=1, and its next request is in flight to
\* https://b:80/moved?x=1.
C20_Witness ==
    \E c \in Calls :
        /\ started = 1
        /\ pc[c] = "await"
        /\ followed[c] = 1
        /\ last_update[module[c]].some
        /\ Len(last_update[module[c]].val) = 2
        /\ current_url[c].host = <<"e">>
        /\ target_url[c] = MkUrl("https", <<"b">>, 80, <<"moved">>, "x=1")

\* ------------------------------------------------------------------ C13

\* C13: a call of filter_selected or subselect with the sub-path
\* [s1, ..., sn] appends exactly one step to the path, whatever the path
\* was: the array whose first element is the operation's name and whose
\* next n elements are s1, ..., sn themselves, an si that is an array still
\* being that array.
C13_FlattensOneLevel ==
    [][(/\ Len(applied') = Len(applied) + 1
        /\ applied'[Len(applied')].op \in {"filter_selected", "subselect"}) =>
           LET call == applied'[Len(applied')]
               sub  == call.arg
               step == path'[Len(path')]
               name == IF call.op = "filter_selected"
                       THEN FilterSelectedName ELSE SubselectName
           IN  /\ Len(path') = Len(path) + 1
               /\ SubSeq(path', 1, Len(path)) = path
               /\ step.kind = "Array"
               /\ Len(step.items) = 1 + Len(sub)
               /\ step.items[1] = Str(name)
               /\ \A j \in 1..Len(sub) :
                      /\ step.items[j + 1] = sub[j]
                      /\ step.items[j + 1].kind = sub[j].kind]_vars

\* A path holds the step of a subselect whose two-step sub-path began with
\* a three-element array: the step has three elements, the second of them
\* that array.
C13_Witness ==
    \E i \in 1..Len(path) :
        /\ applied[i].op = "subselect"
        /\ Len(applied[i].arg) = 2
        /\ applied[i].arg[1].kind = "Array"
        /\ Len(applied[i].arg[1].items) = 3
        /\ Len(path[i].items) = 3
        /\ path[i].items[2] = applied[i].arg[1]

\* ------------------------------------------------------------------ C14

EncoderOps ==
    {"rama_long", "rama_byte", "rama_short", "rama_float", "rama_char",
     "rama_keyword", "rama_function", "rama_ops_function"}

\* The letter of the kind each encoder is for.
KindLetter(op) ==
    CASE op = "rama_long"    -> "L"
      [] op = "rama_byte"    -> "B"
      [] op = "rama_short"   -> "S"
      [] op = "rama_float"   -> "F"
      [] op = "rama_char"    -> "C"
      [] op = "rama_keyword" -> "K"
      [] op \in {"rama_function", "rama_ops_function"} -> "f"

\* ds is the decimal numeral of the natural number n: digits only, no
\* leading zero, value n.
IsNumeral(ds, n) ==
    /\ ds # <<>>
    /\ \A i \in 1..Len(ds) : ds[i] \in Digits
    /\ (Len(ds) > 1 => ds[1] # "0")
    /\ DecimalValue(ds) = n

\* text is the canonical text of the value arg that encoder op was given.
IsCanonical(op, arg, text) ==
    CASE op \in {"rama_long", "rama_byte", "rama_short"} ->
           IF arg < 0
           THEN text # <<>> /\ text[1] = "-" /\ IsNumeral(Tail(text), 0 - arg)
           ELSE IsNumeral(text, arg)
      [] op = "rama_float" ->
           IF arg.class = "nan" THEN text = <<"N", "a", "N">>
           ELSE
           LET body == IF arg.neg THEN Tail(text) ELSE text
               dots == {i \in 1..Len(body) : body[i] = "."}
           IN  /\ (arg.neg => text[1] = "-")
               /\ IF arg.frac = <<>>
                  THEN dots = {} /\ IsNumeral(body, arg.int)
                  ELSE /\ Cardinality(dots) = 1
                       /\ LET d == CHOOSE i \in dots : TRUE
                          IN  /\ IsNumeral(SubSeq(body, 1, d - 1), arg.int)
                              /\ SubSeq(body, d + 1, Len(body)) = arg.frac
      [] op = "rama_char" -> text = <<arg>>
      [] op \in {"rama_keyword", "rama_function"} -> text = arg
      [] op = "rama_ops_function" -> text = <<"O", "p", "s", ".">> \o arg

\* C14: the value every encoder returns is a string that is '#__', the
\* letter of the encoder's kind (L, B, S, F, C, K, f) and the canonical text
\* of the value encoded, nothing before, between or after; the letters of
\* the seven kinds differ from each other, and two values encoded for
\* different kinds are different strings.
C14_SentinelThenCanonicalText ==
    /\ Len(path) = Len(applied)
    /\ Cardinality({KindLetter(op) : op \in EncoderOps}) = 7
    /\ \A i \in 1..Len(path) :
           applied[i].op \in EncoderOps =>
               /\ path[i].kind = "String"
               /\ Len(path[i].text) >= 4
               /\ SubSeq(path[i].text, 1, 3) = <<"#", "_", "_">>
               /\ path[i].text[4] = KindLetter(applied[i].op)
               /\ IsCanonical(applied[i].op, applied[i].arg,
                              SubSeq(path[i].text, 5, Len(path[i].text)))
    /\ \A i, j \in 1..Len(path) :
           (/\ applied[i].op \in EncoderOps
            /\ applied[j].op \in EncoderOps
            /\ KindLetter(applied[i].op) # KindLetter(applied[j].op)) =>
               path[i] # path[j]

\* A path holds 5 encoded as a long and 5 encoded as a short: "#__L5" and
\* "#__S5".
C14_Witness ==
    /\ Len(path) = 2
    /\ applied[1].op = "rama_long" /\ applied[1].arg = 5
    /\ applied[2].op = "rama_short" /\ applied[2].arg = 5
    /\ path[1].text = <<"#", "_", "_", "L", "5">>
    /\ path[2].text = <<"#", "_", "_", "S", "5">>

\* ------------------------------------------------------------------ C21

\* C21: a call holds the cache's lock only inside one lookup or one update
\* and gives it up with its next step, so never while its request is in
\* flight; and when every call that can take a step is run and the transport
\* answers every request, every call that was started returns, whatever the
\* interleaving (so none waits for the lock forever, at the lookup or at the
\* update); a call in progress has no outcome yet, and a call gets its one
\* outcome, success or one error, in the step in which it returns.
C21_LockIsShortAndCallsReturn ==
    /\ [](\A c \in Calls :
            /\ lock_owner = Some(c) => pc[c] \in {"lookup", "insert"}
            /\ pc[c] = "await" => lock_owner # Some(c)
            /\ pc[c] \in {"loop", "lookup", "await", "update", "insert"}
                 => outcome[c] = NoOutcome
            /\ pc[c] = "done" => outcome[c] # NoOutcome)
    /\ [][\A c \in Calls :
            /\ (lock_owner = Some(c) /\ pc'[c] # pc[c]) => lock_owner' = None
            /\ outcome'[c] # outcome[c] =>
                 \/ pc[c] # "done" /\ pc'[c] = "done"
                 \/ pc[c] = "done" /\ pc'[c] = "loop"]_vars
    /\ \A c \in Calls : (pc[c] \notin {"idle", "done"}) ~> (pc[c] = "done")

\* One call holds the lock for its cache update while the other call, with
\* a redirect of its own received, waits for the lock.
C21_Witness ==
    \E c, d \in Calls :
        /\ pc[c] = "insert"
        /\ lock_owner = Some(c)
        /\ pc[d] = "update"
        /\ pending[d] # NoResponse

====
